---------------------------- MODULE Spec2Model ----------------------------
(***************************************************************************)
(* A model of the two build-asset scripts of gramfix:                      *)
(*   scripts/generate-app-icon.py        (the icon composer)               *)
(*   scripts/generate-dmg-background.py  (the installer background)        *)
(*                                                                         *)
(* Numbers.  Python floats are modelled as exact rationals <<n, d>> with   *)
(* d > 0, and int(x) as truncation toward zero.  On the inputs enumerated  *)
(* below the exact value and the IEEE-754 double computed by the scripts   *)
(* truncate to the same integer (a double differs from the exact value by  *)
(* less than 2^-40 here, so the two can only disagree where the exact      *)
(* value is an integer; none of the enumerated inputs hits such a case).   *)
(*                                                                         *)
(* Images.  A raster is modelled by what the scripts decide about it: its  *)
(* dimensions, and for the gradient its rows (every pixel of a row has     *)
(* the row's colour, because each row is one draw.line over the full       *)
(* width).  Resampling filters and PNG encoding belong to Pillow.          *)
(***************************************************************************)
EXTENDS Integers, Sequences, FiniteSets, TLC

VARIABLES
    \* ---- generate-app-icon.py: parse_color / create_gradient_background
    gpc,          \* position in the gradient run
    gradient,     \* the descriptor's "linear-gradient" list of colour strings
    size,         \* create_gradient_background: size
    color1,       \* create_gradient_background: color1
    color2,       \* create_gradient_background: color2
    start_y,      \* create_gradient_background: start_y  (rational)
    end_y,        \* create_gradient_background: end_y    (rational)
    start_px,     \* local start_px
    end_px,       \* local end_px
    y,            \* loop variable of "for y in range(size)"
    img,          \* the raster: img[y + 1] is the RGBA colour of row y
    \* ---- generate-app-icon.py: main
    fs_descriptor, \* AppIcon.icon/icon.json on disk: [status, data]
    fs_assets,     \* os.listdir(AppIcon.icon/Assets): file names <<stem, ext>>
    fs_fgsize,     \* <<width, height>> of the image in the first .png asset
    pc,            \* position in main
    icon_data,     \* the loaded descriptor
    background,    \* image [w, h]
    foreground,    \* image [w, h]
    scale,         \* rational
    paste,         \* <<>>, or <<[w, h, x, y]>>: what line 127 pasted, and where
    result,        \* image [w, h]
    mask,          \* <<>>, or <<[w, h, radius]>>
    final,         \* image [w, h]
    idx,           \* loop position in "for size, filename in sizes"
    log,           \* the output operations performed, in order
    disk,          \* names of the files and directories created under scripts/
    rc,            \* exit status of iconutil (-1: not run)
    stdout,        \* messages printed
    stderr,        \* uncaught exception reported by the interpreter
    exit_status,   \* process exit status (-1: still running)
    \* ---- generate-dmg-background.py: lerp_color
    lpc,           \* position in the lerp_color call
    c1,            \* lerp_color: c1
    c2,            \* lerp_color: c2
    t,             \* lerp_color: t (rational)
    lerped,        \* the tuple lerp_color returned
    \* ---- generate-dmg-background.py: draw_glow
    glpc,          \* position in draw_glow
    radius,        \* draw_glow: radius
    color,         \* draw_glow: color
    intensity,     \* draw_glow: intensity (rational)
    r,             \* loop variable of "for r in range(radius, 0, -3)"
    glow,          \* the ellipses drawn on the glow layer, in order: [r, alpha]
    \* ---- generate-dmg-background.py: draw_curved_arrow
    apc,           \* position in draw_curved_arrow
    start,         \* draw_curved_arrow: start  <<x1, y1>>
    end,           \* draw_curved_arrow: end    <<x2, y2>>
    thickness,     \* draw_curved_arrow: thickness
    i,             \* loop variable of both loops
    points,        \* the sampled points
    segments,      \* the lines drawn, in order
    arrowhead      \* <<>>, or the polygon drawn at the end

gvars == <<gpc, gradient, size, color1, color2, start_y, end_y,
           start_px, end_px, y, img>>

envvars == <<fs_descriptor, fs_assets, fs_fgsize>>
mvars == <<pc, icon_data, background, foreground, scale, paste, result, mask,
           final, idx, log, disk, rc, stdout, stderr, exit_status>>

lvars == <<lpc, c1, c2, t, lerped>>
glvars == <<glpc, radius, color, intensity, r, glow>>
avars == <<apc, start, end, thickness, i, points, segments, arrowhead>>

vars == <<gvars, envvars, mvars, lvars, glvars, avars>>

-----------------------------------------------------------------------------
(* Arithmetic helpers *)

Min(a, b) == IF a <= b THEN a ELSE b
Max(a, b) == IF a >= b THEN a ELSE b

\* Python int(n / d) for d > 0: truncation toward zero.
Trunc(n, d) == IF n >= 0 THEN n \div d ELSE -((-n) \div d)

\* The rational n/d.
Rat(n, d) == <<n, d>>

-----------------------------------------------------------------------------
(* generate-app-icon.py: parse_color *)

\* A colour string is modelled by what split(":") makes of it: the sequence
\* of its parts.  The part after the tag is modelled by what split(",") and
\* float() make of it: the sequence of its decimal numbers, as rationals.
PinkStr  == <<"srgb", <<Rat(100000, 100000), Rat(54098, 100000),
                        Rat(84731, 100000), Rat(100000, 100000)>>>>
BlueStr  == <<"srgb", <<Rat(33, 100), Rat(686, 1000), Rat(10, 10), Rat(10, 10)>>>>
BlackStr == <<"srgb", <<Rat(0, 10), Rat(0, 10), Rat(0, 10), Rat(10, 10)>>>>
WideStr  == <<"extended-srgb", <<Rat(12, 10), Rat(-1, 10), Rat(5, 10), Rat(10, 10)>>>>
GrayStr  == <<"gray">>

ColorStrings == {PinkStr, BlueStr, BlackStr, WideStr, GrayStr}

\* values[:3]
Prefix3(values) == SubSeq(values, 1, Min(3, Len(values)))

parse_color(color_str) ==
    IF Len(color_str) = 2
    THEN LET values == color_str[2]
             kept == Prefix3(values)
         IN  [ch \in 1..Len(kept) |-> Trunc(kept[ch][1] * 255, kept[ch][2])]
    ELSE <<128, 128, 128>>


-----------------------------------------------------------------------------
(* generate-app-icon.py: create_gradient_background, run on the colours and
   orientation that main extracts from a descriptor (main, lines 77-94), for a
   canvas size drawn from 1..MaxSize. *)

MaxSize == 6

\* Orientation fractions a descriptor may carry.
Fractions == {Rat(0, 1), Rat(1, 4), Rat(1, 2), Rat(7, 10), Rat(1, 1)}

\* "linear-gradient" lists: absent, or two colour strings.
GradientLists == {<<>>} \cup {<<a, b>> : a \in ColorStrings, b \in ColorStrings}

Transparent == <<0, 0, 0, 0>>

\* int(size * frac)
ToPx(sz, frac) == Trunc(sz * frac[1], frac[2])

\* RowColor with the span measured from row 0 instead of from start_px.
RowColorFromTop(yy, ca, cb, spx, epx) ==
    IF yy < spx THEN ca
    ELSE IF yy > epx THEN cb
    ELSE LET d == Max(1, epx)
             k == yy - spx
         IN  [ch \in 1..3 |-> Trunc(ca[ch] * d + (cb[ch] - ca[ch]) * k, d)]

\* The body of the loop, lines 57-64: the RGB colour of row yy.
RowColor(yy, ca, cb, spx, epx) ==
    IF yy < spx THEN ca
    ELSE IF yy > epx THEN cb
    ELSE LET d == Max(1, epx - spx)
             k == yy - spx
         IN  [ch \in 1..3 |-> Trunc(ca[ch] * d + (cb[ch] - ca[ch]) * k, d)]

\* (*color, 255)
Opaque(c) == c \o <<255>>

NoImage == [w |-> 0, h |-> 0]
EmptyDescriptor == [gradient |-> <<>>, start |-> <<>>, stop |-> <<>>, groups |-> <<>>]

\* The state of main's variables before main has run.
MainLocalsInit ==
    /\ icon_data = EmptyDescriptor
    /\ background = NoImage
    /\ foreground = NoImage
    /\ scale = Rat(1, 1)
    /\ paste = <<>>
    /\ result = NoImage
    /\ mask = <<>>
    /\ final = NoImage
    /\ idx = 0
    /\ log = <<>>
    /\ disk = {}
    /\ rc = -1
    /\ stdout = <<>>
    /\ stderr = <<>>
    /\ exit_status = -1

\* main is not part of this run.
MainIdle ==
    /\ pc = "idle"
    /\ fs_descriptor = [status |-> "absent", data |-> EmptyDescriptor]
    /\ fs_assets = <<>>
    /\ fs_fgsize = <<0, 0>>
    /\ MainLocalsInit

\* lerp_color, draw_glow and draw_curved_arrow are not part of this run.
LerpIdle ==
    /\ lpc = "idle"
    /\ c1 = <<0, 0, 0>>
    /\ c2 = <<0, 0, 0>>
    /\ t = Rat(0, 1)
    /\ lerped = <<>>

GlowIdle ==
    /\ glpc = "idle"
    /\ radius = 0
    /\ color = <<0, 0, 0>>
    /\ intensity = Rat(0, 1)
    /\ r = 0
    /\ glow = <<>>

ArrowIdle ==
    /\ apc = "idle"
    /\ start = <<0, 0>>
    /\ end = <<0, 0>>
    /\ thickness = 0
    /\ i = 0
    /\ points = <<>>
    /\ segments = <<>>
    /\ arrowhead = <<>>

DmgIdle == LerpIdle /\ GlowIdle /\ ArrowIdle

GradientInit ==
    /\ gpc = "extract"
    /\ gradient \in GradientLists
    /\ size \in 1..MaxSize
    /\ start_y \in Fractions
    /\ end_y \in Fractions
    /\ color1 = <<>>
    /\ color2 = <<>>
    /\ start_px = 0
    /\ end_px = 0
    /\ y = 0
    /\ img = <<>>
    /\ MainIdle
    /\ DmgIdle

\* main, lines 77-83: the two colour stops, or the defaults.
ExtractColors ==
    /\ gpc = "extract"
    /\ IF Len(gradient) >= 2
       THEN /\ color1' = parse_color(gradient[1])
            /\ color2' = parse_color(gradient[2])
       ELSE /\ color1' = <<255, 138, 216>>
            /\ color2' = <<84, 175, 255>>
    /\ gpc' = "call"
    /\ UNCHANGED <<gradient, size, start_y, end_y, start_px, end_px, y, img>>
    /\ UNCHANGED <<envvars, mvars, lvars, glvars, avars>>

\* create_gradient_background, lines 50-54.
GradientBegin ==
    /\ gpc = "call"
    /\ img' = [row \in 1..size |-> Transparent]
    /\ start_px' = ToPx(size, start_y)
    /\ end_px' = ToPx(size, end_y)
    /\ y' = 0
    /\ gpc' = "loop"
    /\ UNCHANGED <<gradient, size, color1, color2, start_y, end_y>>
    /\ UNCHANGED <<envvars, mvars, lvars, glvars, avars>>

\* One iteration of "for y in range(size)", lines 56-66.
GradientRow ==
    /\ gpc = "loop"
    /\ y < size
    /\ img' = [img EXCEPT ![y + 1] =
                  Opaque(RowColor(y, color1, color2, start_px, end_px))]
    /\ y' = y + 1
    /\ UNCHANGED <<gpc, gradient, size, color1, color2, start_y, end_y,
                   start_px, end_px>>
    /\ UNCHANGED <<envvars, mvars, lvars, glvars, avars>>

\* The loop is exhausted: return img, line 68.
GradientReturn ==
    /\ gpc = "loop"
    /\ y = size
    /\ gpc' = "returned"
    /\ UNCHANGED <<gradient, size, color1, color2, start_y, end_y,
                   start_px, end_px, y, img>>
    /\ UNCHANGED <<envvars, mvars, lvars, glvars, avars>>

GradientNext ==
    \/ ExtractColors
    \/ GradientBegin
    \/ GradientRow
    \/ GradientReturn

SpecGradient == GradientInit /\ [][GradientNext]_vars


-----------------------------------------------------------------------------
(* Claims about parse_color and create_gradient_background (SpecGradient) *)

\* 0 <= s <= e <= 1 for the rationals s, e
OrderedFractions(s, e) ==
    /\ 0 <= s[1] /\ s[1] <= s[2]
    /\ 0 <= e[1] /\ e[1] <= e[2]
    /\ s[1] * e[2] <= e[1] * s[2]

\* The row colour as the specification words it, with the real-valued
\* boundaries s*N and e*N (all quantities scaled by s[2] * e[2]).
RowAsWorded(yy, n, ca, cb, s, e) ==
    LET unit == s[2] * e[2]
        sN == s[1] * n * e[2]
        eN == e[1] * n * s[2]
        yN == yy * unit
    IN  IF yN < sN THEN ca
        ELSE IF yN > eN THEN cb
        ELSE LET d == Max(unit, eN - sN)
             IN  [ch \in 1..3 |-> Trunc(ca[ch] * d + (cb[ch] - ca[ch]) * (yN - sN), d)]

\* The row colour with the boundaries truncated to whole pixels first.
RowOnPixels(yy, n, ca, cb, s, e) ==
    LET sp == Trunc(n * s[1], s[2])
        ep == Trunc(n * e[1], e[2])
    IN  IF yy < sp THEN ca
        ELSE IF yy > ep THEN cb
        ELSE LET d == IF ep - sp >= 1 THEN ep - sp ELSE 1
             IN  [ch \in 1..3 |-> Trunc(ca[ch] * d + (cb[ch] - ca[ch]) * (yy - sp), d)]

\* C1 (as stated): every row y of the returned raster is the opaque colour
\* C1 if y < s*N, C2 if y > e*N, and otherwise
\* trunc(C1 + (C2 - C1) * (y - s*N) / max(1, e*N - s*N)).
C1_RowsAsWorded ==
    (gpc = "returned" /\ OrderedFractions(start_y, end_y)) =>
        \A yy \in 0..(size - 1) :
            img[yy + 1] = RowAsWorded(yy, size, color1, color2, start_y, end_y) \o <<255>>

\* C1 (amended): with start_px = trunc(s*N) and end_px = trunc(e*N), every
\* row y already drawn is the opaque colour C1 if y < start_px, C2 if
\* y > end_px, and otherwise
\* trunc(C1 + (C2 - C1) * (y - start_px) / max(1, end_px - start_px)).
C1_RowsOnPixels ==
    (gpc \in {"loop", "returned"} /\ OrderedFractions(start_y, end_y)) =>
        /\ Len(img) = size
        /\ gpc = "returned" => y = size
        /\ \A yy \in 0..(y - 1) :
              img[yy + 1] = RowOnPixels(yy, size, color1, color2, start_y, end_y) \o <<255>>

\* A finished gradient whose start boundary falls inside a pixel and which has
\* a row strictly inside the transition, different from both stops.
C1_Witness ==
    /\ gpc = "returned"
    /\ OrderedFractions(start_y, end_y)
    /\ (size * start_y[1]) % start_y[2] # 0
    /\ \E yy \in 0..(size - 1) :
          /\ start_px < yy /\ yy < end_px
          /\ img[yy + 1] # color1 \o <<255>>
          /\ img[yy + 1] # color2 \o <<255>>

ByteRange == 0..255

\* C6: every channel parse_color returns, and every channel of every row
\* colour the gradient computes from two parsed colours, lies in 0..255.
C6_ChannelsInByteRange ==
    /\ (gpc # "extract" /\ Len(gradient) >= 2) =>
          /\ Len(color1) = 3 /\ Len(color2) = 3
          /\ \A ch \in 1..3 : color1[ch] \in ByteRange /\ color2[ch] \in ByteRange
    /\ (gpc \in {"loop", "returned"} /\ Len(gradient) >= 2) =>
          \A yy \in 0..(y - 1) : \A ch \in 1..3 : img[yy + 1][ch] \in ByteRange


-----------------------------------------------------------------------------
(* generate-app-icon.py: main *)

OUTPUT_SIZE == 1024

\* Scale factors a layer's position record may carry.
Scales == {Rat(1, 2), Rat(13, 20), Rat(999, 1000), Rat(1, 1), Rat(6, 5)}

\* "groups" of a descriptor: absent, a group without layers, a layer without
\* a scale, or a first layer with a scale.
GroupLists ==
    {<<>>, <<[layers |-> <<>>]>>, <<[layers |-> <<[scale |-> <<>>]>>]>>}
    \cup {<<[layers |-> <<[scale |-> <<sc>>]>>]>> : sc \in Scales}

\* A descriptor: each optional field is a sequence, empty when the key is
\* absent (what .get(key, default) tests).
Descriptors ==
    [gradient : {<<>>, <<PinkStr, BlueStr>>},
     start    : {<<>>, <<Rat(1, 4)>>},
     stop     : {<<>>, <<Rat(1, 2)>>},
     groups   : GroupLists]

DescriptorFiles ==
    {[status |-> st, data |-> EmptyDescriptor] : st \in {"absent", "unreadable", "malformed"}}
    \cup {[status |-> "ok", data |-> d] : d \in Descriptors}

\* Listings of the Assets directory.
AssetListings ==
    {<<>>,
     <<<<"notes", "txt">>>>,
     <<<<"photo", "jpg">>>>,
     <<<<"foreground", "png">>>>,
     <<<<"notes", "txt">>, <<"foreground", "png">>>>}

\* Dimensions of the stored foreground image.
ForegroundSizes ==
    {<<OUTPUT_SIZE, OUTPUT_SIZE>>, <<512, 512>>, <<2048, 1024>>,
     <<OUTPUT_SIZE, 512>>, <<512, OUTPUT_SIZE>>}

\* f.endswith('.png')
EndsWithPng(f) == f[2] = "png"

\* The listing without the extension filter.
AllFiles(listing) == listing

\* [f for f in os.listdir(assets_dir) if f.endswith('.png')]
PngFiles(listing) == SelectSeq(listing, EndsWithPng)

\* Lines 78-83: the two colour stops of a gradient list, or the defaults.
StopColors(g) ==
    IF Len(g) >= 2
    THEN <<parse_color(g[1]), parse_color(g[2])>>
    ELSE <<<<255, 138, 216>>, <<84, 175, 255>>>>

\* d.get(key, default) for an optional field
GetOr(field, default) == IF Len(field) > 0 THEN field[1] ELSE default

\* Lines 108-112: the scale of the first layer of the first group, or 1.0.
LayerScale(data) ==
    IF Len(data.groups) > 0 /\ Len(data.groups[1].layers) > 0
    THEN GetOr(data.groups[1].layers[1].scale, Rat(1, 1))
    ELSE Rat(1, 1)

\* Line 122 with round() in place of int(): Python rounds halves to even.
RoundedSize(sc) ==
    LET n == OUTPUT_SIZE * sc[1]
        q == n \div sc[2]
        rem2 == 2 * (n % sc[2])
    IN  IF rem2 < sc[2] THEN q
        ELSE IF rem2 > sc[2] THEN q + 1
        ELSE IF q % 2 = 0 THEN q ELSE q + 1

\* Line 122: new_size = int(OUTPUT_SIZE * scale)
NewSize(sc) == Trunc(OUTPUT_SIZE * sc[1], sc[2])

\* Line 125: offset = (OUTPUT_SIZE - new_size) // 2
Offset(ns) == (OUTPUT_SIZE - ns) \div 2

\* Line 39: actual_radius = int(size * 0.2237)
MaskRadius(sz) == Trunc(sz * 2237, 10000)

\* Lines 150-161.
sizes ==
    << <<16, "icon_16x16.png">>,
       <<32, "icon_16x16@2x.png">>,
       <<32, "icon_32x32.png">>,
       <<64, "icon_32x32@2x.png">>,
       <<128, "icon_128x128.png">>,
       <<256, "icon_128x128@2x.png">>,
       <<256, "icon_256x256.png">>,
       <<512, "icon_256x256@2x.png">>,
       <<512, "icon_512x512.png">>,
       <<1024, "icon_512x512@2x.png">> >>

\* An uncaught exception: the interpreter prints the traceback and exits 1.
Raise(exc) ==
    /\ pc' = "raised"
    /\ stderr' = Append(stderr, exc)
    /\ exit_status' = 1

MainInit ==
    /\ pc = "read"
    /\ fs_descriptor \in DescriptorFiles
    /\ fs_assets \in AssetListings
    /\ fs_fgsize \in ForegroundSizes
    /\ MainLocalsInit
    /\ gpc = "idle"
    /\ gradient = <<>>
    /\ size = OUTPUT_SIZE
    /\ color1 = <<>>
    /\ color2 = <<>>
    /\ start_y = Rat(0, 1)
    /\ end_y = Rat(0, 1)
    /\ start_px = 0
    /\ end_px = 0
    /\ y = 0
    /\ img = <<>>
    /\ DmgIdle

\* What main never touches.
MainFrame == UNCHANGED <<envvars, gpc, size, y, img, lvars, glvars, avars>>

\* Lines 72-74: open and json.load; a missing, unreadable or malformed file
\* raises and nothing catches it.
ReadDescriptor ==
    /\ pc = "read"
    /\ IF fs_descriptor.status = "ok"
       THEN /\ icon_data' = fs_descriptor.data
            /\ pc' = "colors"
            /\ UNCHANGED <<stderr, exit_status>>
       ELSE /\ Raise(CASE fs_descriptor.status = "absent" -> "FileNotFoundError"
                       [] fs_descriptor.status = "unreadable" -> "PermissionError"
                       [] OTHER -> "JSONDecodeError")
            /\ UNCHANGED icon_data
    /\ UNCHANGED <<background, foreground, scale, paste, result, mask, final,
                   idx, log, disk, rc, stdout>>
    /\ UNCHANGED <<gradient, color1, color2, start_y, end_y, start_px, end_px>>
    /\ MainFrame

\* Lines 77-85.
ExtractGradient ==
    /\ pc = "colors"
    /\ gradient' = icon_data.gradient
    /\ color1' = StopColors(icon_data.gradient)[1]
    /\ color2' = StopColors(icon_data.gradient)[2]
    /\ stdout' = Append(stdout, "Gradient colors")
    /\ pc' = "orientation"
    /\ UNCHANGED <<icon_data, background, foreground, scale, paste, result, mask,
                   final, idx, log, disk, rc, stderr, exit_status>>
    /\ UNCHANGED <<start_y, end_y, start_px, end_px>>
    /\ MainFrame

\* Lines 88-90.
GetOrientation ==
    /\ pc = "orientation"
    /\ start_y' = GetOr(icon_data.start, Rat(0, 1))
    /\ end_y' = GetOr(icon_data.stop, Rat(7, 10))
    /\ pc' = "background"
    /\ UNCHANGED <<icon_data, background, foreground, scale, paste, result, mask,
                   final, idx, log, disk, rc, stdout, stderr, exit_status>>
    /\ UNCHANGED <<gradient, color1, color2, start_px, end_px>>
    /\ MainFrame

\* Lines 93-94: the call of create_gradient_background(OUTPUT_SIZE, ...).
\* The rows of the raster are those of SpecGradient; here the raster is kept
\* by its dimensions and pixel boundaries.
CreateBackground ==
    /\ pc = "background"
    /\ stdout' = Append(stdout, "Creating gradient background...")
    /\ start_px' = ToPx(OUTPUT_SIZE, start_y)
    /\ end_px' = ToPx(OUTPUT_SIZE, end_y)
    /\ background' = [w |-> OUTPUT_SIZE, h |-> OUTPUT_SIZE]
    /\ pc' = "assets"
    /\ UNCHANGED <<icon_data, foreground, scale, paste, result, mask,
                   final, idx, log, disk, rc, stderr, exit_status>>
    /\ UNCHANGED <<gradient, color1, color2, start_y, end_y>>
    /\ MainFrame

\* Lines 97-101: without a .png asset, print the error and sys.exit(1).
ListAssets ==
    /\ pc = "assets"
    /\ IF PngFiles(fs_assets) = <<>>
       THEN /\ stdout' = Append(stdout, "Error: No foreground PNG found in Assets folder")
            /\ exit_status' = 1
            /\ pc' = "exited"
       ELSE /\ pc' = "load"
            /\ UNCHANGED <<stdout, exit_status>>
    /\ UNCHANGED <<icon_data, background, foreground, scale, paste, result, mask,
                   final, idx, log, disk, rc, stderr>>
    /\ UNCHANGED <<gradient, color1, color2, start_y, end_y, start_px, end_px>>
    /\ MainFrame

\* Lines 103-105: open the first .png asset.
LoadForeground ==
    /\ pc = "load"
    /\ stdout' = Append(stdout, "Loading foreground")
    /\ foreground' = [w |-> fs_fgsize[1], h |-> fs_fgsize[2]]
    /\ pc' = "scale"
    /\ UNCHANGED <<icon_data, background, scale, paste, result, mask,
                   final, idx, log, disk, rc, stderr, exit_status>>
    /\ UNCHANGED <<gradient, color1, color2, start_y, end_y, start_px, end_px>>
    /\ MainFrame

\* Lines 108-114.
GetScale ==
    /\ pc = "scale"
    /\ scale' = LayerScale(icon_data)
    /\ stdout' = Append(stdout, "Foreground scale")
    /\ pc' = "resize"
    /\ UNCHANGED <<icon_data, background, foreground, paste, result, mask,
                   final, idx, log, disk, rc, stderr, exit_status>>
    /\ UNCHANGED <<gradient, color1, color2, start_y, end_y, start_px, end_px>>
    /\ MainFrame

\* Line 117: the test that decides whether the foreground is resized.
NeedsResize(fg) == fg.w # OUTPUT_SIZE

\* Lines 117-118.
ResizeForeground ==
    /\ pc = "resize"
    /\ foreground' = IF NeedsResize(foreground)
                     THEN [w |-> OUTPUT_SIZE, h |-> OUTPUT_SIZE]
                     ELSE foreground
    /\ pc' = "place"
    /\ UNCHANGED <<icon_data, background, scale, paste, result, mask,
                   final, idx, log, disk, rc, stdout, stderr, exit_status>>
    /\ UNCHANGED <<gradient, color1, color2, start_y, end_y, start_px, end_px>>
    /\ MainFrame

\* Lines 121-128: scale != 1.0 resizes the foreground to new_size square and
\* pastes it at (offset, offset) on a transparent OUTPUT_SIZE canvas.
ScaleForeground ==
    /\ pc = "place"
    /\ IF scale[1] # scale[2]
       THEN /\ paste' = <<[w |-> NewSize(scale), h |-> NewSize(scale),
                           x |-> Offset(NewSize(scale)), y |-> Offset(NewSize(scale))]>>
            /\ foreground' = [w |-> OUTPUT_SIZE, h |-> OUTPUT_SIZE]
       ELSE UNCHANGED <<paste, foreground>>
    /\ pc' = "composite"
    /\ UNCHANGED <<icon_data, background, scale, result, mask,
                   final, idx, log, disk, rc, stdout, stderr, exit_status>>
    /\ UNCHANGED <<gradient, color1, color2, start_y, end_y, start_px, end_px>>
    /\ MainFrame

\* Lines 131-132: Image.alpha_composite raises ValueError ("images do not
\* match") unless both images have the same size.
Composite ==
    /\ pc = "composite"
    /\ stdout' = Append(stdout, "Compositing layers...")
    /\ IF foreground = background
       THEN /\ result' = background
            /\ pc' = "mask"
            /\ UNCHANGED <<stderr, exit_status>>
       ELSE /\ Raise("ValueError")
            /\ UNCHANGED result
    /\ UNCHANGED <<icon_data, background, foreground, scale, paste, mask,
                   final, idx, log, disk, rc>>
    /\ UNCHANGED <<gradient, color1, color2, start_y, end_y, start_px, end_px>>
    /\ MainFrame

\* Lines 135-139.
ApplyMask ==
    /\ pc = "mask"
    /\ mask' = <<[w |-> OUTPUT_SIZE, h |-> OUTPUT_SIZE, radius |-> MaskRadius(OUTPUT_SIZE)]>>
    /\ final' = [w |-> OUTPUT_SIZE, h |-> OUTPUT_SIZE]
    /\ pc' = "save"
    /\ UNCHANGED <<icon_data, background, foreground, scale, paste, result,
                   idx, log, disk, rc, stdout, stderr, exit_status>>
    /\ UNCHANGED <<gradient, color1, color2, start_y, end_y, start_px, end_px>>
    /\ MainFrame

\* Lines 142-144.
SaveComposed ==
    /\ pc = "save"
    /\ log' = Append(log, [op |-> "save", name |-> "AppIcon-composed.png", px |-> final.w])
    /\ disk' = disk \cup {"AppIcon-composed.png"}
    /\ stdout' = Append(stdout, "Composed icon saved")
    /\ pc' = "mkdir"
    /\ UNCHANGED <<icon_data, background, foreground, scale, paste, result, mask,
                   final, idx, rc, stderr, exit_status>>
    /\ UNCHANGED <<gradient, color1, color2, start_y, end_y, start_px, end_px>>
    /\ MainFrame

\* Lines 147-148 and 163.
MakeIconset ==
    /\ pc = "mkdir"
    /\ log' = Append(log, [op |-> "makedirs", name |-> "Gramfix.iconset", px |-> 0])
    /\ disk' = disk \cup {"Gramfix.iconset"}
    /\ stdout' = Append(stdout, "Generating icon sizes...")
    /\ idx' = 0
    /\ pc' = "export"
    /\ UNCHANGED <<icon_data, background, foreground, scale, paste, result, mask,
                   final, rc, stderr, exit_status>>
    /\ UNCHANGED <<gradient, color1, color2, start_y, end_y, start_px, end_px>>
    /\ MainFrame

\* WriteIconFile leaving the loop one entry early.
WriteIconFileShort ==
    /\ pc = "export"
    /\ idx < Len(sizes)
    /\ log' = Append(log, [op |-> "save", name |-> sizes[idx + 1][2], px |-> sizes[idx + 1][1]])
    /\ disk' = disk \cup {sizes[idx + 1][2]}
    /\ idx' = idx + 1
    /\ pc' = IF idx + 1 >= Len(sizes) - 1 THEN "convert" ELSE "export"
    /\ UNCHANGED <<icon_data, background, foreground, scale, paste, result, mask,
                   final, rc, stdout, stderr, exit_status>>
    /\ UNCHANGED <<gradient, color1, color2, start_y, end_y, start_px, end_px>>
    /\ MainFrame

\* One iteration of "for size, filename in sizes", lines 164-166.
WriteIconFile ==
    /\ pc = "export"
    /\ idx < Len(sizes)
    /\ log' = Append(log, [op |-> "save", name |-> sizes[idx + 1][2], px |-> sizes[idx + 1][1]])
    /\ disk' = disk \cup {sizes[idx + 1][2]}
    /\ idx' = idx + 1
    /\ pc' = IF idx + 1 = Len(sizes) THEN "convert" ELSE "export"
    /\ UNCHANGED <<icon_data, background, foreground, scale, paste, result, mask,
                   final, rc, stdout, stderr, exit_status>>
    /\ UNCHANGED <<gradient, color1, color2, start_y, end_y, start_px, end_px>>
    /\ MainFrame

\* Lines 169-171 with check=False: the exit status is ignored.
RunConverterUnchecked ==
    /\ pc = "convert"
    /\ \E code \in {0, 1} :
          /\ rc' = code
          /\ disk' = IF code = 0 THEN disk \cup {"Gramfix.icns"} ELSE disk
    /\ log' = Append(log, [op |-> "iconutil", name |-> "Gramfix.icns", px |-> 0])
    /\ stdout' = Append(stdout, "Converting to icns...")
    /\ pc' = "report"
    /\ UNCHANGED <<icon_data, background, foreground, scale, paste, result, mask,
                   final, idx, stderr, exit_status>>
    /\ UNCHANGED <<gradient, color1, color2, start_y, end_y, start_px, end_px>>
    /\ MainFrame

\* Lines 169-171: subprocess.run(..., check=True) waits for iconutil and
\* raises CalledProcessError on a non-zero exit status.
RunConverter ==
    /\ pc = "convert"
    /\ log' = Append(log, [op |-> "iconutil", name |-> "Gramfix.icns", px |-> 0])
    /\ stdout' = Append(stdout, "Converting to icns...")
    /\ \E code \in {0, 1} :
          /\ rc' = code
          /\ IF code = 0
             THEN /\ disk' = disk \cup {"Gramfix.icns"}
                  /\ pc' = "report"
                  /\ UNCHANGED <<stderr, exit_status>>
             ELSE /\ Raise("CalledProcessError")
                  /\ UNCHANGED disk
    /\ UNCHANGED <<icon_data, background, foreground, scale, paste, result, mask,
                   final, idx>>
    /\ UNCHANGED <<gradient, color1, color2, start_y, end_y, start_px, end_px>>
    /\ MainFrame

\* Lines 173-174, then the normal end of the script.
Report ==
    /\ pc = "report"
    /\ stdout' = stdout \o <<"App icon created", "Size">>
    /\ exit_status' = 0
    /\ pc' = "done"
    /\ UNCHANGED <<icon_data, background, foreground, scale, paste, result, mask,
                   final, idx, log, disk, rc, stderr>>
    /\ UNCHANGED <<gradient, color1, color2, start_y, end_y, start_px, end_px>>
    /\ MainFrame

MainNext ==
    \/ ReadDescriptor
    \/ ExtractGradient
    \/ GetOrientation
    \/ CreateBackground
    \/ ListAssets
    \/ LoadForeground
    \/ GetScale
    \/ ResizeForeground
    \/ ScaleForeground
    \/ Composite
    \/ ApplyMask
    \/ SaveComposed
    \/ MakeIconset
    \/ WriteIconFile
    \/ RunConverter
    \/ Report

SpecMain == MainInit /\ [][MainNext]_vars

-----------------------------------------------------------------------------
(* Claims about main (SpecMain) *)

Printed(msg) == \E k \in 1..Len(stdout) : stdout[k] = msg

Canvas == [w |-> OUTPUT_SIZE, h |-> OUTPUT_SIZE]

\* C2: once iconutil has returned a non-zero exit status the run is over: no
\* step of main is enabled, "App icon created" has not been printed, and the
\* process has ended with the uncaught CalledProcessError and status 1.
C2_ConverterFailureAborts ==
    (rc # -1 /\ rc # 0) =>
        /\ pc = "raised"
        /\ ~ENABLED MainNext
        /\ ~Printed("App icon created")
        /\ stderr = <<"CalledProcessError">>
        /\ exit_status = 1

C2_Witness ==
    /\ rc = 1
    /\ pc = "raised"
    /\ Printed("Converting to icns...")

RasterExtensions == {"png", "jpg", "jpeg", "gif", "bmp", "tiff"}

NoRasterAsset == \A k \in 1..Len(fs_assets) : fs_assets[k][2] \notin RasterExtensions

\* C3: in a run whose descriptor file is absent or unreadable, or whose Assets
\* directory holds no raster image, nothing is composited, saved, exported or
\* converted; the run never gets past the step that finds the fault, and when
\* it has halted there an error was reported and the exit status is non-zero.
C3_BadInputsHalt ==
    (fs_descriptor.status # "ok" \/ NoRasterAsset) =>
        /\ result = NoImage /\ final = NoImage /\ mask = <<>>
        /\ log = <<>> /\ disk = {} /\ rc = -1
        /\ fs_descriptor.status # "ok" => pc \in {"read", "raised"}
        /\ pc \in {"read", "colors", "orientation", "background", "assets",
                   "raised", "exited"}
        /\ pc \in {"raised", "exited"} =>
              /\ exit_status = 1
              /\ \/ stderr # <<>>
                 \/ Printed("Error: No foreground PNG found in Assets folder")
              /\ ~ENABLED MainNext

C3_Witness ==
    /\ fs_descriptor.status = "ok"
    /\ fs_assets # <<>>
    /\ NoRasterAsset
    /\ pc = "exited"
    /\ exit_status = 1

\* C4: the foreground handed to alpha_composite is always OUTPUT_SIZE square,
\* like the background.
C4_ForegroundIsCanvas ==
    pc = "composite" => (foreground = Canvas /\ background = Canvas)

\* C5 (as stated): a scale other than 1.0 resizes the foreground to
\* round(N * scale) square and pastes it at (N - scaled_size) // 2.
C5_ScaledSizeRounded ==
    paste # <<>> =>
        /\ paste[1].w = RoundedSize(scale) /\ paste[1].h = RoundedSize(scale)
        /\ paste[1].x = (OUTPUT_SIZE - RoundedSize(scale)) \div 2
        /\ paste[1].y = (OUTPUT_SIZE - RoundedSize(scale)) \div 2

\* C5 (amended): a scale other than 1.0 resizes the foreground to
\* trunc(N * scale) square and pastes it onto an N x N canvas at the offset
\* (N - scaled_size) // 2 on both axes; a scale of 1.0 pastes nothing.
C5_ScaledSizeTruncated ==
    LET ns == (OUTPUT_SIZE * scale[1]) \div scale[2]
        off == (OUTPUT_SIZE - ns) \div 2
    IN  /\ paste # <<>> =>
              /\ scale[1] # scale[2]
              /\ paste = <<[w |-> ns, h |-> ns, x |-> off, y |-> off]>>
              /\ pc = "composite" => foreground = Canvas
        /\ (pc = "composite" /\ scale[1] # scale[2]) => paste # <<>>

\* A scaled foreground whose exact size N * scale has a fraction above one
\* half, about to be composited.
C5_Witness ==
    /\ pc = "composite"
    /\ paste # <<>>
    /\ 2 * ((OUTPUT_SIZE * scale[1]) % scale[2]) > scale[2]

Saves == SelectSeq(log, LAMBDA e : e.op = "save")
ConverterRuns == SelectSeq(log, LAMBDA e : e.op = "iconutil")

OutputOrder ==
    << <<"AppIcon-composed.png", 1024>>,
       <<"icon_16x16.png", 16>>, <<"icon_16x16@2x.png", 32>>,
       <<"icon_32x32.png", 32>>, <<"icon_32x32@2x.png", 64>>,
       <<"icon_128x128.png", 128>>, <<"icon_128x128@2x.png", 256>>,
       <<"icon_256x256.png", 256>>, <<"icon_256x256@2x.png", 512>>,
       <<"icon_512x512.png", 512>>, <<"icon_512x512@2x.png", 1024>> >>

\* C10: the files are saved in the fixed order (the composed PNG, then the ten
\* iconset files 16, 32, 32, 64, 128, 256, 256, 512, 512, 1024); iconutil is
\* run at most once, as the last output operation and only after all eleven
\* files are saved, and it has run whenever its status is known; every file
\* saved so far is still on disk, also after a failure.
C10_OutputOrder ==
    /\ Len(Saves) <= Len(OutputOrder)
    /\ \A k \in 1..Len(Saves) :
          Saves[k].name = OutputOrder[k][1] /\ Saves[k].px = OutputOrder[k][2]
    /\ Len(ConverterRuns) <= 1
    /\ Len(ConverterRuns) = 1 =>
          /\ Len(Saves) = Len(OutputOrder)
          /\ log[Len(log)].op = "iconutil"
    /\ (rc # -1 \/ pc \in {"report", "done"}) <=> Len(ConverterRuns) = 1
    /\ \A k \in 1..Len(log) : log[k].op # "iconutil" => log[k].name \in disk

\* A run ended by a failed conversion, with the eleven files and the iconset
\* directory left on disk.
C10_Witness ==
    /\ pc = "raised"
    /\ rc = 1
    /\ Len(Saves) = 11
    /\ Cardinality(disk) = 12

-----------------------------------------------------------------------------
(* generate-dmg-background.py: palette and lerp_color *)

PINK == <<255, 138, 216>>
BLUE == <<84, 175, 255>>
DARK_BG == <<30, 30, 34>>
DARKER_BG == <<20, 20, 24>>

\* lerp_color with its two colours exchanged.
lerp_color_swapped(ca, cb, tt) ==
    [ch \in 1..3 |-> Trunc(cb[ch] * tt[2] + (ca[ch] - cb[ch]) * tt[1], tt[2])]

\* Lines 33-35: int(c1[i] + (c2[i] - c1[i]) * t) for the three channels,
\* with t the rational tt[1] / tt[2].
lerp_color(ca, cb, tt) ==
    [ch \in 1..3 |-> Trunc(ca[ch] * tt[2] + (cb[ch] - ca[ch]) * tt[1], tt[2])]

MaxDen == 4

LerpColors == {PINK, BLUE, DARK_BG, DARKER_BG, <<0, 0, 0>>, <<255, 255, 255>>}

\* The fractions n/d of [0, 1] with d <= MaxDen.
UnitFractions == {q \in (0..MaxDen) \X (1..MaxDen) : q[1] <= q[2]}

\* What the dmg script never touches.
IconIdle ==
    /\ gpc = "idle"
    /\ gradient = <<>>
    /\ size = 0
    /\ color1 = <<>>
    /\ color2 = <<>>
    /\ start_y = Rat(0, 1)
    /\ end_y = Rat(0, 1)
    /\ start_px = 0
    /\ end_px = 0
    /\ y = 0
    /\ img = <<>>
    /\ MainIdle

LerpInit ==
    /\ lpc = "call"
    /\ c1 \in LerpColors
    /\ c2 \in LerpColors
    /\ t \in UnitFractions
    /\ lerped = <<>>
    /\ GlowIdle
    /\ ArrowIdle
    /\ IconIdle

\* One call of lerp_color(c1, c2, t).
CallLerp ==
    /\ lpc = "call"
    /\ lerped' = lerp_color(c1, c2, t)
    /\ lpc' = "returned"
    /\ UNCHANGED <<c1, c2, t>>
    /\ UNCHANGED <<gvars, envvars, mvars, glvars, avars>>

LerpNext == CallLerp

SpecLerp == LerpInit /\ [][LerpNext]_vars

\* C7: for channels in 0..255 and t in [0, 1], every channel of
\* lerp_color(c1, c2, t) lies between the channels of c1 and c2 inclusive,
\* lerp_color(c1, c2, 0) = c1 and lerp_color(c1, c2, 1) = c2.
C7_LerpBetweenStops ==
    lpc = "returned" =>
        /\ Len(lerped) = 3
        /\ \A ch \in 1..3 :
              /\ Min(c1[ch], c2[ch]) <= lerped[ch]
              /\ lerped[ch] <= Max(c1[ch], c2[ch])
        /\ t[1] = 0 => lerped = c1
        /\ t[1] = t[2] => lerped = c2

\* A result strictly between two different stops at an inner fraction.
C7_Witness ==
    /\ lpc = "returned"
    /\ 0 < t[1] /\ t[1] < t[2]
    /\ \E ch \in 1..3 :
          /\ Min(c1[ch], c2[ch]) < lerped[ch]
          /\ lerped[ch] < Max(c1[ch], c2[ch])

-----------------------------------------------------------------------------
(* generate-dmg-background.py: draw_glow *)

MaxRadius == 12

\* Radii: the small ones, and main's 200 * 2 (lines 139-140).
Radii == (1..MaxRadius) \cup {400}

Intensities == {Rat(12, 100), Rat(15, 100), Rat(1, 1)}

\* Line 50: alpha = int(255 * intensity * (r / radius) ** 2)
GlowAlpha(rr, rad, inten) ==
    Trunc(255 * inten[1] * rr * rr, inten[2] * rad * rad)

GlowInit ==
    /\ glpc = "call"
    /\ radius \in Radii
    /\ color \in {PINK, BLUE}
    /\ intensity \in Intensities
    /\ r = 0
    /\ glow = <<>>
    /\ LerpIdle
    /\ ArrowIdle
    /\ IconIdle

\* Lines 46-47 and the start of range(radius, 0, -3).
GlowBegin ==
    /\ glpc = "call"
    /\ glow' = <<>>
    /\ r' = radius
    /\ glpc' = "loop"
    /\ UNCHANGED <<radius, color, intensity>>
    /\ UNCHANGED <<gvars, envvars, mvars, lvars, avars>>

\* One iteration of "for r in range(radius, 0, -3)", lines 49-55.
GlowCircle ==
    /\ glpc = "loop"
    /\ r > 0
    /\ glow' = Append(glow, [r |-> r, fill |-> color \o <<GlowAlpha(r, radius, intensity)>>])
    /\ r' = r - 3
    /\ UNCHANGED <<glpc, radius, color, intensity>>
    /\ UNCHANGED <<gvars, envvars, mvars, lvars, avars>>

\* The range is exhausted: composite and return, line 57.
GlowReturn ==
    /\ glpc = "loop"
    /\ r <= 0
    /\ glpc' = "returned"
    /\ UNCHANGED <<radius, color, intensity, r, glow>>
    /\ UNCHANGED <<gvars, envvars, mvars, lvars, avars>>

GlowNext ==
    \/ GlowBegin
    \/ GlowCircle
    \/ GlowReturn

SpecGlow == GlowInit /\ [][GlowNext]_vars

\* C9: the circles are drawn with strictly decreasing radii starting at
\* radius, and of two circles the one with the smaller radius has an alpha at
\* least as large.
C9_InnerCirclesMoreOpaque ==
    /\ Len(glow) > 0 => glow[1].r = radius
    /\ \A j \in 1..Len(glow) : \A k \in 1..Len(glow) :
          j < k =>
              /\ glow[k].r < glow[j].r
              /\ glow[k].fill[4] >= glow[j].fill[4]

-----------------------------------------------------------------------------
(* generate-dmg-background.py: draw_curved_arrow *)

steps == 60

\* End points: main's arrow (lines 147-148) and others.
Starts == {<<400, 280>>, <<100, 300>>}
Ends == {<<680, 280>>, <<500, 100>>}

\* Lines 65-66, 72-75: one coordinate of the point at t = k / steps, for the
\* end coordinates a1, a2 and twice the control coordinate ctl2; the exact
\* value, as a rational over 2 * steps^2.
Bezier(k, a1, ctl2, a2) ==
    Rat(2 * (steps - k) * (steps - k) * a1 + 2 * (steps - k) * k * ctl2 + 2 * k * k * a2,
        2 * steps * steps)

\* Twice the control point: mid_x = (x1 + x2) / 2, mid_y = min(y1, y2) - 80 * 2.
Control2(p1, p2) == <<p1[1] + p2[1], 2 * (Min(p1[2], p2[2]) - 80 * 2)>>

\* Lines 72-76: the point sampled at step k.
SampleAt(k, p1, p2) ==
    <<Bezier(k, p1[1], Control2(p1, p2)[1], p2[1]),
      Bezier(k, p1[2], Control2(p1, p2)[2], p2[2])>>

\* The fraction of a segment taken over the number of segments.
SegmentFractionOverSegments(k, n) == Rat(k, n - 1)

\* Line 81: t = i / len(points)
SegmentFraction(k, n) == Rat(k, n)

\* The difference of two rationals over the same denominator.
RatDiff(a, b) == Rat(a[1] - b[1], a[2])

ArrowInit ==
    /\ apc = "call"
    /\ start \in Starts
    /\ end \in Ends
    /\ thickness \in {6, 8}
    /\ i = 0
    /\ points = <<>>
    /\ segments = <<>>
    /\ arrowhead = <<>>
    /\ LerpIdle
    /\ GlowIdle
    /\ IconIdle

\* Lines 61-70.
ArrowBegin ==
    /\ apc = "call"
    /\ points' = <<>>
    /\ i' = 0
    /\ apc' = "sample"
    /\ UNCHANGED <<start, end, thickness, segments, arrowhead>>
    /\ UNCHANGED <<gvars, envvars, mvars, lvars, glvars>>

\* One iteration of "for i in range(steps + 1)", lines 71-76.
SamplePoint ==
    /\ apc = "sample"
    /\ i < steps + 1
    /\ points' = Append(points, SampleAt(i, start, end))
    /\ IF i + 1 < steps + 1
       THEN i' = i + 1 /\ UNCHANGED apc
       ELSE i' = 0 /\ apc' = "stroke"
    /\ UNCHANGED <<start, end, thickness, segments, arrowhead>>
    /\ UNCHANGED <<gvars, envvars, mvars, lvars, glvars>>

\* One iteration of "for i in range(len(points) - 1)", lines 79-83.
DrawSegment ==
    /\ apc = "stroke"
    /\ i < Len(points) - 1
    /\ segments' = Append(segments,
          [from |-> points[i + 1], to |-> points[i + 2],
           fill |-> lerp_color(PINK, BLUE, SegmentFraction(i, Len(points))) \o <<255>>,
           width |-> thickness])
    /\ IF i + 1 < Len(points) - 1
       THEN i' = i + 1 /\ UNCHANGED apc
       ELSE UNCHANGED i /\ apc' = "head"
    /\ UNCHANGED <<start, end, thickness, points, arrowhead>>
    /\ UNCHANGED <<gvars, envvars, mvars, lvars, glvars>>

\* Lines 86-107: the arrowhead polygon.  Its tip is (end_x + 5, end_y); the
\* other three vertices are placed by the angle of the direction
\* points[-1] - points[-5], kept here as that direction.
DrawArrowhead ==
    /\ apc = "head"
    /\ LET last == points[Len(points)]
           back == points[Len(points) - 4]
       IN  arrowhead' = <<[tip |-> <<Rat(last[1][1] + 5 * last[1][2], last[1][2]), last[2]>>,
                           dx |-> RatDiff(last[1], back[1]),
                           dy |-> RatDiff(last[2], back[2]),
                           fill |-> BLUE \o <<255>>]>>
    /\ apc' = "returned"
    /\ UNCHANGED <<start, end, thickness, i, points, segments>>
    /\ UNCHANGED <<gvars, envvars, mvars, lvars, glvars>>

ArrowNext ==
    \/ ArrowBegin
    \/ SamplePoint
    \/ DrawSegment
    \/ DrawArrowhead

SpecArrow == ArrowInit /\ [][ArrowNext]_vars

\* The exact quadratic Bezier coordinate at n/d, over 2 * d^2.
CurveAt(n, d, a1, ctl2, a2) ==
    <<2 * (d - n) * (d - n) * a1 + 2 * (d - n) * n * ctl2 + 2 * n * n * a2, 2 * d * d>>

PointAt(n, d) ==
    <<CurveAt(n, d, start[1], start[1] + end[1], end[1]),
      CurveAt(n, d, start[2], 2 * (Min(start[2], end[2]) - 160), end[2])>>

StrokeDone == apc \in {"head", "returned"}

\* The sampling and the joining of consecutive points, common to both
\* readings of C8: 61 points at t = k/60 and 60 segments, segment k joining
\* points k and k+1.
SampledAndJoined ==
    /\ apc \in {"stroke", "head", "returned"} =>
          /\ Len(points) = 61
          /\ \A k \in 0..60 : points[k + 1] = PointAt(k, 60)
    /\ StrokeDone => Len(segments) = 60
    /\ \A k \in 0..(Len(segments) - 1) :
          /\ segments[k + 1].from = points[k + 1]
          /\ segments[k + 1].to = points[k + 2]

\* C8 (as stated): 61 points at t = i/60, 60 segments, and segment i is
\* stroked with the colour interpolated from pink to blue at i/60.
C8_SegmentColourOverSixty ==
    /\ SampledAndJoined
    /\ \A k \in 0..(Len(segments) - 1) :
          segments[k + 1].fill =
              [ch \in 1..3 |-> (PINK[ch] * 60 + (BLUE[ch] - PINK[ch]) * k) \div 60] \o <<255>>

\* C8 (amended): 61 points at t = i/60, 60 segments, and segment i is stroked
\* with the opaque colour interpolated from pink to blue at i/61.
C8_SegmentColourOverSixtyOne ==
    /\ SampledAndJoined
    /\ \A k \in 0..(Len(segments) - 1) :
          segments[k + 1].fill =
              [ch \in 1..3 |-> (PINK[ch] * 61 + (BLUE[ch] - PINK[ch]) * k) \div 61] \o <<255>>

\* The finished arrow: all 60 segments drawn, the last one (i = 59) in the
\* colour at 59/61, which is not the colour at 59/60.
C8_Witness ==
    /\ apc = "returned"
    /\ Len(segments) = 60
    /\ segments[60].fill = <<89, 173, 253, 255>>
    /\ segments[60].to = <<Rat(2 * 3600 * end[1], 7200), Rat(2 * 3600 * end[2], 7200)>>

=============================================================================
